---- MODULE Spec2Model ----
(***************************************************************************)
(* moshudp: the protocol codec (src/src/protocol.rs), the responder loop   *)
(* (src/src/server.rs) and the initiator loop (src/src/client.rs).         *)
(*                                                                         *)
(* Byte strings are modelled as sequences of fields [w, v]: w is the width *)
(* in bytes the field takes on the wire, v what the bytes hold.  A text is *)
(* [len, id]: len bytes whose content is named id.  The AEAD is modelled   *)
(* symbolically: a ciphertext remembers the key, nonce and plaintext it    *)
(* was made from and opens only under the same key and nonce.  The entropy *)
(* source (getrandom) is taken to work; the nonce it yields is an input.   *)
(***************************************************************************)
EXTENDS Integers, Sequences, FiniteSets, TLC

VARIABLES codec, server, srvObs, client, cliObs

vars == <<codec, server, srvObs, client, cliObs>>

(***************************************************************************)
(* Bounds of the model and constants of the program                        *)
(***************************************************************************)
\* pub const MAGIC : u32 = 0x55644d6f
MAGIC == 1432636783

\* with_limit(1024) of decrypt, for the envelope and for the inner message
SizeLimit == 1024

\* the Poly1305 tag XChaCha20Poly1305 appends to the plaintext
TagLen == 16

\* past_nonces.len() > 1000_000 of the server, scaled down
ReplayLimit == 2

\* resend_counter: 50 of Client::new
ResendBudget == 50

\* how many times the model lets a role spawn its subsystem
MaxSpawns == 2

None == <<>>

Some(x) == <<x>>

\* one nonce more than the cache may hold before it is flushed
Nonces == 1..(ReplayLimit + 1)

\* the session ids the model draws from
SessIds == {41, 42}

\* the pre-shared key and a key that is not it
Keys == {"psk", "other"}

Text(n, i) == [len |-> n, id |-> i]

\* a mosh key is 22 characters; the long texts sit on both sides of what
\* still fits an envelope of SizeLimit bytes (64 bytes of framing)
KeyTexts == {Text(22, "k1"), Text(22, "k2")}

LongTexts == {Text(SizeLimit - 64, "t1"), Text(SizeLimit - 63, "t2")}

\* the diagnostics start_mosh_server fails with
DiagSpawn == Text(38, "No such file or directory (os error 2)")

DiagStatus == Text(56, "Unsuccessful exit status from mosh-server: exit status: 1")

DiagMalformed == Text(27, "Malformed MOSH CONNECT line")

DiagPort == Text(29, "invalid digit found in string")

DiagBind == Text(33, "Address already in use (os error 98)")

DiagNoLine == Text(41, "Failed to find MOSH CONNECT in the output")

(***************************************************************************)
(* protocol.rs                                                             *)
(***************************************************************************)
Ping == [type |-> "Ping"]

Pong == [type |-> "Pong"]

StartServer(sessid) == [type |-> "StartServer", sessid |-> sessid]

ServerStarted(key) == [type |-> "ServerStarted", key |-> key]

Failed(msg) == [type |-> "Failed", msg |-> msg]

Message ==
    {Ping, Pong}
        \cup {StartServer(s) : s \in SessIds}
        \cup {ServerStarted(k) : k \in KeyTexts \cup LongTexts}
        \cup {Failed(m) : m \in {DiagMalformed} \cup LongTexts}

U32(v) == [w |-> 4, v |-> v]

U64(v) == [w |-> 8, v |-> v]

Bytes(n, v) == [w |-> n, v |-> v]

RECURSIVE SizeOf(_)
SizeOf(buf) == IF buf = <<>> THEN 0 ELSE Head(buf).w + SizeOf(Tail(buf))

\* bco().serialize(msg): u32 variant index, u64 and length-prefixed text,
\* big endian, fixed width
SerializeMessage(msg) ==
    CASE msg.type = "Ping" -> <<U32(0)>>
      [] msg.type = "Pong" -> <<U32(1)>>
      [] msg.type = "StartServer" -> <<U32(2), U64(msg.sessid)>>
      [] msg.type = "ServerStarted" ->
            <<U32(3), U64(msg.key.len), Bytes(msg.key.len, msg.key.id)>>
      [] msg.type = "Failed" ->
            <<U32(4), U64(msg.msg.len), Bytes(msg.msg.len, msg.msg.id)>>

\* a length-prefixed text at fields i, i+1 of buf, and nothing after it
IsText(buf, i) ==
    /\ Len(buf) = i + 1
    /\ buf[i].w = 8
    /\ buf[i + 1].w = buf[i].v

\* bco().with_limit(limit).deserialize::<Message>(buf)
DeserializeMessage(buf, limit) ==
    LET bad == [ok |-> FALSE, msg |-> Ping]
        tag == buf[1].v
    IN  IF \/ buf = <<>>
           \/ buf[1].w # 4
           \/ SizeOf(buf) > limit
        THEN bad
        ELSE CASE tag = 0 /\ Len(buf) = 1 -> [ok |-> TRUE, msg |-> Ping]
               [] tag = 1 /\ Len(buf) = 1 -> [ok |-> TRUE, msg |-> Pong]
               [] tag = 2 /\ Len(buf) = 2 /\ buf[2].w = 8 ->
                     [ok |-> TRUE, msg |-> StartServer(buf[2].v)]
               [] tag = 3 /\ IsText(buf, 2) ->
                     [ok |-> TRUE, msg |-> ServerStarted(Text(buf[3].w, buf[3].v))]
               [] tag = 4 /\ IsText(buf, 2) ->
                     [ok |-> TRUE, msg |-> Failed(Text(buf[3].w, buf[3].v))]
               [] OTHER -> bad

\* crypto.encrypt(nonce, buf): the ciphertext is TagLen bytes longer
AeadEncrypt(crypto, nonce, buf) ==
    Bytes(SizeOf(buf) + TagLen, [k |-> crypto, n |-> nonce, pt |-> buf])

\* crypto.decrypt(nonce, data): opens under the key and nonce it was sealed with
AeadDecrypt(crypto, nonce, data) ==
    IF data.v.k = crypto /\ data.v.n = nonce
    THEN [ok |-> TRUE, buf |-> data.v.pt]
    ELSE [ok |-> FALSE, buf |-> <<>>]

\* bco().serialize(&Datagram {magic, nonce, data})
SerializeDatagram(magic, nonce, data) ==
    <<U32(magic), Bytes(24, nonce), U64(data.w), data>>

\* the envelope's decoder with a limit that is one byte too strict
DeserializeDatagram_Strict(msg, limit) ==
    IF /\ Len(msg) = 4
       /\ msg[1].w = 4
       /\ msg[2].w = 24
       /\ msg[3].w = 8
       /\ msg[4].w = msg[3].v
       /\ SizeOf(msg) < limit
    THEN [ok |-> TRUE, magic |-> msg[1].v, nonce |-> msg[2].v, data |-> msg[4]]
    ELSE [ok |-> FALSE, magic |-> 0, nonce |-> 0, data |-> Bytes(0, 0)]

\* bco().with_limit(limit).deserialize::<Datagram>(msg)
DeserializeDatagram(msg, limit) ==
    IF /\ Len(msg) = 4
       /\ msg[1].w = 4
       /\ msg[2].w = 24
       /\ msg[3].w = 8
       /\ msg[4].w = msg[3].v
       /\ SizeOf(msg) <= limit
    THEN [ok |-> TRUE, magic |-> msg[1].v, nonce |-> msg[2].v, data |-> msg[4]]
    ELSE [ok |-> FALSE, magic |-> 0, nonce |-> 0, data |-> Bytes(0, 0)]

\* the envelope sealing an already serialized plaintext
Seal(buf, crypto, nonce, magic) ==
    SerializeDatagram(magic, nonce, AeadEncrypt(crypto, nonce, buf))

\* encrypt(msg, crypto) with the nonce getrandom drew
encrypt(msg, crypto, nonce) == Seal(SerializeMessage(msg), crypto, nonce, MAGIC)

DecryptErr(e, past_nonces) == [err |-> e, msg |-> Ping, past_nonces |-> past_nonces]

\* decrypt without the past_nonces check
decrypt_NoReplayCheck(msg, crypto, past_nonces) ==
    LET h == DeserializeDatagram(msg, SizeLimit)
        buf == AeadDecrypt(crypto, h.nonce, h.data)
        m == DeserializeMessage(buf.buf, SizeLimit)
    IN  IF ~h.ok THEN DecryptErr("Decode", past_nonces)
        ELSE IF h.magic # MAGIC THEN DecryptErr("Invalid magic", past_nonces)
        ELSE IF ~buf.ok THEN DecryptErr("Decryption failed", past_nonces)
        ELSE IF ~m.ok THEN DecryptErr("Inner decode", past_nonces \cup {h.nonce})
        ELSE [err |-> "Ok", msg |-> m.msg, past_nonces |-> past_nonces \cup {h.nonce}]

\* decrypt with the magic compared after the AEAD has opened the envelope
decrypt_MagicAfterAead(msg, crypto, past_nonces) ==
    LET h == DeserializeDatagram(msg, SizeLimit)
        buf == AeadDecrypt(crypto, h.nonce, h.data)
        m == DeserializeMessage(buf.buf, SizeLimit)
    IN  IF ~h.ok THEN DecryptErr("Decode", past_nonces)
        ELSE IF ~buf.ok THEN DecryptErr("Decryption failed", past_nonces)
        ELSE IF h.magic # MAGIC THEN DecryptErr("Invalid magic", past_nonces)
        ELSE IF h.nonce \in past_nonces THEN DecryptErr("Replay attack", past_nonces)
        ELSE IF ~m.ok THEN DecryptErr("Inner decode", past_nonces \cup {h.nonce})
        ELSE [err |-> "Ok", msg |-> m.msg, past_nonces |-> past_nonces \cup {h.nonce}]

\* decrypt with the nonce inserted only once the inner message has decoded
decrypt_InsertAfterDecode(msg, crypto, past_nonces) ==
    LET h == DeserializeDatagram(msg, SizeLimit)
        buf == AeadDecrypt(crypto, h.nonce, h.data)
        m == DeserializeMessage(buf.buf, SizeLimit)
    IN  IF ~h.ok THEN DecryptErr("Decode", past_nonces)
        ELSE IF h.magic # MAGIC THEN DecryptErr("Invalid magic", past_nonces)
        ELSE IF ~buf.ok THEN DecryptErr("Decryption failed", past_nonces)
        ELSE IF h.nonce \in past_nonces THEN DecryptErr("Replay attack", past_nonces)
        ELSE IF ~m.ok THEN DecryptErr("Inner decode", past_nonces)
        ELSE [err |-> "Ok", msg |-> m.msg, past_nonces |-> past_nonces \cup {h.nonce}]

\* decrypt(msg, crypto, past_nonces): the result and the cache it leaves
decrypt(msg, crypto, past_nonces) ==
    LET h == DeserializeDatagram(msg, SizeLimit)
        buf == AeadDecrypt(crypto, h.nonce, h.data)
        m == DeserializeMessage(buf.buf, SizeLimit)
    IN  IF ~h.ok THEN DecryptErr("Decode", past_nonces)
        ELSE IF h.magic # MAGIC THEN DecryptErr("Invalid magic", past_nonces)
        ELSE IF ~buf.ok THEN DecryptErr("Decryption failed", past_nonces)
        ELSE IF h.nonce \in past_nonces THEN DecryptErr("Replay attack", past_nonces)
        ELSE IF ~m.ok THEN DecryptErr("Inner decode", past_nonces \cup {h.nonce})
        ELSE [err |-> "Ok", msg |-> m.msg, past_nonces |-> past_nonces \cup {h.nonce}]

(***************************************************************************)
(* What the network can hand to a public socket                            *)
(***************************************************************************)
\* an authenticated plaintext that is no Message: an unknown variant index
JunkPlain == <<U32(9)>>

\* traffic of the legacy daemons: no envelope at all
Opaque == {<<Bytes(37, "mosh-a")>>, <<Bytes(37, "mosh-b")>>}

\* envelopes that do not authenticate or do not decode
BadEnvelopes ==
    {encrypt(Ping, "other", 1),
     Seal(SerializeMessage(Ping), "psk", 1, MAGIC + 1),
     Seal(SerializeMessage(Ping), "other", 1, MAGIC + 1),
     SerializeDatagram(MAGIC, 2, AeadEncrypt("psk", 1, SerializeMessage(Ping))),
     encrypt(Failed(Text(SizeLimit - 63, "t2")), "psk", 1),
     Seal(SerializeMessage(Failed(Text(SizeLimit - 63, "t2"))), "psk", 1,
          MAGIC + 1)}

\* envelopes under the pre-shared key whose plaintext is no Message
JunkEnvelopes == {Seal(JunkPlain, "psk", n, MAGIC) : n \in Nonces}

Envelopes(msgs) == {encrypt(m, "psk", n) : m \in msgs, n \in Nonces}

(***************************************************************************)
(* The codec on its own: encrypt, then decrypt against a cache             *)
(***************************************************************************)
CodecFrame == UNCHANGED <<server, srvObs, client, cliObs>>

CodecInit ==
    codec = [pkt |-> <<Bytes(37, "mosh-a")>>,
             sent |-> None,
             past_nonces |-> {},
             out |-> None]

\* encrypt(msg, crypto) is called; the cache is whatever it was
CodecEncrypt ==
    /\ CodecFrame
    /\ \E m \in Message, k \in Keys, n \in Nonces :
          codec' = [codec EXCEPT !.pkt = encrypt(m, k, n),
                                 !.sent = Some([msg |-> m, key |-> k, nonce |-> n]),
                                 !.out = None]

\* a datagram that encrypt did not make arrives
CodecCraft ==
    /\ CodecFrame
    /\ \E p \in Opaque \cup BadEnvelopes \cup JunkEnvelopes :
          codec' = [codec EXCEPT !.pkt = p, !.sent = None, !.out = None]

\* decrypt(pkt, crypto, &mut past_nonces) is called
CodecDecrypt ==
    /\ CodecFrame
    /\ \E k \in Keys :
          LET d == decrypt(codec.pkt, k, codec.past_nonces)
          IN  codec' = [codec EXCEPT
                          !.past_nonces = d.past_nonces,
                          !.out = Some([err |-> d.err, msg |-> d.msg, key |-> k,
                                        before |-> codec.past_nonces])]

\* a fresh cache: FxHashSet::default()
CodecFresh ==
    /\ CodecFrame
    /\ codec.past_nonces # {}
    /\ codec' = [codec EXCEPT !.past_nonces = {}, !.out = None]

CodecNext ==
    \/ CodecEncrypt
    \/ CodecCraft
    \/ CodecDecrypt
    \/ CodecFresh

(***************************************************************************)
(* Properties of the codec                                                 *)
(***************************************************************************)
\* decrypt was called, under the key of encrypt, on what encrypt returned,
\* against a cache that does not hold the envelope's nonce
RoundTripCase ==
    /\ codec.sent # None
    /\ codec.out # None
    /\ codec.out[1].key = codec.sent[1].key
    /\ codec.sent[1].nonce \notin codec.out[1].before

\* C7 (as amended): decrypt(encrypt(m, k), k, cache) returns m for every
\* message whose envelope is at most 1024 bytes long; encrypt makes the
\* envelope of a longer message all the same, and decrypt refuses it with
\* a decode error.
RoundTripWithinLimit ==
    RoundTripCase =>
        IF SizeOf(codec.pkt) <= SizeLimit
        THEN codec.out[1].err = "Ok" /\ codec.out[1].msg = codec.sent[1].msg
        ELSE codec.out[1].err = "Decode"

\* the longest Failed diagnostic that fits came back from a fresh cache
RoundTripWitness ==
    /\ RoundTripCase
    /\ codec.out[1].before = {}
    /\ codec.sent[1].msg = Failed(Text(SizeLimit - 64, "t1"))
    /\ codec.out[1].err = "Ok"
    /\ codec.out[1].msg = codec.sent[1].msg

\* C7 (as claimed): decrypt(encrypt(m, k), k, fresh_cache) returns m for
\* every message m, of whatever length, and every key k.
RoundTrip ==
    (RoundTripCase /\ codec.out[1].before = {})
        => codec.out[1].err = "Ok" /\ codec.out[1].msg = codec.sent[1].msg

(***************************************************************************)
(* server.rs                                                               *)
(***************************************************************************)
\* the addresses datagrams reach the server's public socket from
ClientAddrs == {"c1", "c2"}

\* what the subsystem writes to the server's relay socket
MoshPayloads == {<<Bytes(37, "mosh-x")>>, <<Bytes(37, "mosh-y")>>}

\* what reaches the server's public socket
ServerInbound ==
    Envelopes({Ping, Pong, ServerStarted(Text(22, "k1")), Failed(DiagMalformed)}
                  \cup {StartServer(s) : s \in SessIds})
        \cup JunkEnvelopes \cup Opaque
        \cup {encrypt(Ping, "other", 1), Seal(SerializeMessage(Ping), "psk", 1, MAGIC + 1)}

\* one line of mosh-server's standard output, as start_mosh_server reads it:
\* whether it starts with MOSH CONNECT, its words, whether words[2] is a port
Line(mc, n, port_ok, key) ==
    [mosh_connect |-> mc, words |-> n, port_ok |-> port_ok, key |-> key]

Run(spawn, success, lines, bind) ==
    [spawn |-> spawn, success |-> success, lines |-> lines, bind |-> bind]

Banner == Line(FALSE, 0, FALSE, Text(0, ""))

\* the ways a run of mosh-server can go
MoshServerRuns ==
    {Run(FALSE, FALSE, <<>>, TRUE),
     Run(TRUE, FALSE, <<>>, TRUE),
     Run(TRUE, TRUE, <<Banner>>, TRUE),
     Run(TRUE, TRUE, <<Line(TRUE, 3, TRUE, Text(0, ""))>>, TRUE),
     Run(TRUE, TRUE, <<Line(TRUE, 4, FALSE, Text(22, "k1"))>>, TRUE),
     Run(TRUE, TRUE, <<Line(TRUE, 4, TRUE, Text(22, "k1"))>>, FALSE)}
        \cup {Run(TRUE, TRUE, <<Banner, Line(TRUE, 4, TRUE, k)>>, TRUE) : k \in KeyTexts}

BootErr(diag) ==
    [ok |-> FALSE, mosh |-> [socket |-> 0, key |-> Text(0, ""), sessid |-> 0],
     diag |-> diag]

\* the for loop of start_mosh_server over the output's lines
RECURSIVE ScanLines(_, _, _, _)
ScanLines(lines, sessid, socket, bind) ==
    IF lines = <<>> THEN BootErr(DiagNoLine)
    ELSE LET line == Head(lines)
         IN  IF ~line.mosh_connect THEN ScanLines(Tail(lines), sessid, socket, bind)
             ELSE IF line.words < 4 THEN BootErr(DiagMalformed)
             ELSE IF ~line.port_ok THEN BootErr(DiagPort)
             ELSE IF ~bind THEN BootErr(DiagBind)
             ELSE [ok |-> TRUE,
                   mosh |-> [socket |-> socket, key |-> line.key, sessid |-> sessid],
                   diag |-> Text(0, "")]

\* Server::start_mosh_server(sessid); socket names the relay socket it binds
start_mosh_server(sessid, run, socket) ==
    IF ~run.spawn THEN BootErr(DiagSpawn)
    ELSE IF ~run.success THEN BootErr(DiagStatus)
    ELSE ScanLines(run.lines, sessid, socket, run.bind)

\* if self.past_nonces.len() > 1000_000 { self.past_nonces.clear() }
FlushNonces(past_nonces) ==
    IF Cardinality(past_nonces) > ReplayLimit THEN {} ELSE past_nonces

\* whether the match arm for msg calls start_mosh_server
NeedsBootstrap(msg, mosh) ==
    /\ msg.type = "StartServer"
    /\ ~(mosh # None /\ mosh[1].sessid = msg.sessid)

Handled(mosh, recent, replymsg, started) ==
    [mosh |-> mosh, recent_client_addr |-> recent, replymsg |-> replymsg,
     started |-> started]

\* the match on msg with a StartServer arm that never looks at the stored
\* session id
HandleMessage_AlwaysBootstrap(msg, clientaddr, mosh, recent, boot) ==
    CASE msg.type = "Ping" -> Handled(mosh, recent, Some(Pong), FALSE)
      [] msg.type = "StartServer" ->
            IF boot.ok
            THEN Handled(Some(boot.mosh), Some(clientaddr),
                         Some(ServerStarted(boot.mosh.key)), TRUE)
            ELSE Handled(None, Some(clientaddr), Some(Failed(boot.diag)), TRUE)
      [] OTHER -> Handled(mosh, recent, None, FALSE)

\* the match on msg with a Ping arm that records the sender too
HandleMessage_PingRecords(msg, clientaddr, mosh, recent, boot) ==
    CASE msg.type = "Ping" -> Handled(mosh, Some(clientaddr), Some(Pong), FALSE)
      [] msg.type = "StartServer" ->
            IF ~NeedsBootstrap(msg, mosh)
            THEN Handled(mosh, Some(clientaddr), Some(ServerStarted(mosh[1].key)), FALSE)
            ELSE IF boot.ok
            THEN Handled(Some(boot.mosh), Some(clientaddr),
                         Some(ServerStarted(boot.mosh.key)), TRUE)
            ELSE Handled(None, Some(clientaddr), Some(Failed(boot.diag)), TRUE)
      [] OTHER -> Handled(mosh, recent, None, FALSE)

\* the match on msg with a Pong arm that answers with a Pong
HandleMessage_PongReplies(msg, clientaddr, mosh, recent, boot) ==
    CASE msg.type \in {"Ping", "Pong"} -> Handled(mosh, recent, Some(Pong), FALSE)
      [] msg.type = "StartServer" ->
            IF ~NeedsBootstrap(msg, mosh)
            THEN Handled(mosh, Some(clientaddr), Some(ServerStarted(mosh[1].key)), FALSE)
            ELSE IF boot.ok
            THEN Handled(Some(boot.mosh), Some(clientaddr),
                         Some(ServerStarted(boot.mosh.key)), TRUE)
            ELSE Handled(None, Some(clientaddr), Some(Failed(boot.diag)), TRUE)
      [] OTHER -> Handled(mosh, recent, None, FALSE)

\* the match on msg with a StartServer arm that records the sender only
\* when it has to bootstrap
HandleMessage_RecordsLate(msg, clientaddr, mosh, recent, boot) ==
    CASE msg.type = "Ping" -> Handled(mosh, recent, Some(Pong), FALSE)
      [] msg.type = "StartServer" ->
            IF ~NeedsBootstrap(msg, mosh)
            THEN Handled(mosh, recent, Some(ServerStarted(mosh[1].key)), FALSE)
            ELSE IF boot.ok
            THEN Handled(Some(boot.mosh), recent,
                         Some(ServerStarted(boot.mosh.key)), TRUE)
            ELSE Handled(None, Some(clientaddr), Some(Failed(boot.diag)), TRUE)
      [] OTHER -> Handled(mosh, recent, None, FALSE)

\* the match on msg: the subsystem state, the client address and the reply
\* it leaves; boot is what start_mosh_server returns if it is called
HandleMessage(msg, clientaddr, mosh, recent, boot) ==
    CASE msg.type = "Ping" -> Handled(mosh, recent, Some(Pong), FALSE)
      [] msg.type = "Pong" -> Handled(mosh, recent, None, FALSE)
      [] msg.type = "ServerStarted" -> Handled(mosh, recent, None, FALSE)
      [] msg.type = "Failed" -> Handled(mosh, recent, None, FALSE)
      [] msg.type = "StartServer" ->
            IF ~NeedsBootstrap(msg, mosh)
            THEN Handled(mosh, Some(clientaddr), Some(ServerStarted(mosh[1].key)), FALSE)
            ELSE IF boot.ok
            THEN Handled(Some(boot.mosh), Some(clientaddr),
                         Some(ServerStarted(boot.mosh.key)), TRUE)
            ELSE Handled(None, Some(clientaddr), Some(Failed(boot.diag)), TRUE)

\* where the loop goes after the public socket's branch ran to its end
AfterPublic(s) ==
    IF s.polls_len >= 2 /\ s.revents.relay THEN [s EXCEPT !.pc = "relay"]
    ELSE [s EXCEPT !.pc = "poll", !.polls_len = 1,
                   !.revents = [pub |-> FALSE, relay |-> FALSE]]

\* one authenticated datagram, followed through the run
Probe == encrypt(StartServer(41), "psk", 1)

\* what the server did in the current wake (nothing yet), and two records
\* kept from wake to wake: torn, the subsystem state a forwarding failure
\* cleared and no StartServer has replaced yet, and probe: "fresh" until
\* Probe is delivered as a Message, then "cached" while the cache has not
\* been flushed since, then "flushed"
NoEvents(torn, probe) ==
    [ev |-> "none", from |-> "c1", pkt |-> <<>>, err |-> "none", msg |-> Ping,
     reply |-> None, moshSend |-> None, bootstrap |-> "none", relayIn |-> None,
     clientSend |-> None, wasTorn |-> None, torn |-> torn, probe |-> probe]

\* probe after a datagram was delivered as a Message
ProbeAfter(probe, pkt, flushed) ==
    IF flushed /\ (pkt = Probe \/ probe = "cached") THEN "flushed"
    ELSE IF pkt = Probe THEN "cached"
    ELSE probe

\* the loop is back at its head: polls.truncate(1), and the readiness the
\* last poll reported is read no more
LoopHead(s) ==
    [s EXCEPT !.pc = "poll", !.polls_len = 1,
              !.revents = [pub |-> FALSE, relay |-> FALSE]]

ServerFrame == UNCHANGED <<codec, client, cliObs>>

ServerInit ==
    /\ server = [pc |-> "poll",
                 mosh |-> None,
                 past_nonces |-> {},
                 recent_client_addr |-> None,
                 polls_len |-> 1,
                 revents |-> [pub |-> FALSE, relay |-> FALSE],
                 spawns |-> 0]
    /\ srvObs = NoEvents(None, "fresh")

\* poll(&mut polls, -1) fails: serve returns
ServerPollErr ==
    /\ ServerFrame
    /\ server.pc = "poll"
    /\ server' = [server EXCEPT !.pc = "returned"]
    /\ srvObs' = NoEvents(srvObs.torn, srvObs.probe)

\* the head of the loop: the poll set is rebuilt and poll reports readiness
ServerPoll ==
    /\ ServerFrame
    /\ server.pc = "poll"
    /\ LET n == IF server.mosh # None THEN 2 ELSE 1
       IN  \E pub \in BOOLEAN, relay \in BOOLEAN :
              /\ pub \/ relay
              /\ relay => n = 2
              /\ server' = [server EXCEPT
                               !.polls_len = n,
                               !.revents = [pub |-> pub, relay |-> relay],
                               !.pc = IF pub THEN "public" ELSE "relay"]
    /\ srvObs' = NoEvents(srvObs.torn, srvObs.probe)

\* server_socket.recv_from fails: continue
ServerRecvErr ==
    /\ ServerFrame
    /\ server.pc = "public"
    /\ server' = LoopHead(server)
    /\ srvObs' = [srvObs EXCEPT !.ev = "recverr"]

\* the subsystem state kept by a forwarding attempt (no clearing)
ClearMosh_Keep(mosh, sendOk) == mosh

\* if clearmosh { self.mosh = None }: mosh.socket.send(pkt) failed
ClearMosh(mosh, sendOk) == IF sendOk THEN mosh ELSE None

\* decrypt fails: the datagram goes to the subsystem, if there is one
ServerForward(pkt, clientaddr, d) ==
    \E sendOk \in IF server.mosh = None THEN {TRUE} ELSE BOOLEAN :
        /\ server' = LoopHead([server EXCEPT
                                  !.past_nonces = d.past_nonces,
                                  !.mosh = ClearMosh(@, sendOk)])
        /\ srvObs' = [srvObs EXCEPT
                         !.ev = "datagram", !.from = clientaddr, !.pkt = pkt,
                         !.err = d.err, !.msg = d.msg, !.reply = None,
                         !.moshSend = IF server.mosh = None THEN None
                                      ELSE Some([pkt |-> pkt, ok |-> sendOk]),
                         !.bootstrap = "none", !.relayIn = None,
                         !.clientSend = None, !.wasTorn = None,
                         !.torn = IF sendOk THEN @ ELSE server.mosh]

\* decrypt succeeds: the message is acted on and answered
ServerDispatch(pkt, clientaddr, d) ==
    \E run \in IF NeedsBootstrap(d.msg, server.mosh) THEN MoshServerRuns
               ELSE {Run(FALSE, FALSE, <<>>, TRUE)} :
        LET boot == start_mosh_server(d.msg.sessid, run, server.spawns + 1)
            h == HandleMessage(d.msg, clientaddr, server.mosh,
                               server.recent_client_addr, boot)
        IN  /\ h.started => server.spawns < MaxSpawns
            /\ \E nonce \in IF h.replymsg = None THEN {1} ELSE Nonces :
                  /\ Len(encrypt(Ping, "psk", nonce)) > 0
                  /\ server' = AfterPublic([server EXCEPT
                                   !.past_nonces = FlushNonces(d.past_nonces),
                                   !.mosh = h.mosh,
                                   !.recent_client_addr = h.recent_client_addr,
                                   !.spawns = IF h.started THEN @ + 1 ELSE @])
                  /\ srvObs' = [srvObs EXCEPT
                                   !.ev = "datagram", !.from = clientaddr,
                                   !.pkt = pkt, !.err = d.err, !.msg = d.msg,
                                   !.reply =
                                       IF h.replymsg = None THEN None
                                       ELSE Some([to |-> clientaddr,
                                                  msg |-> h.replymsg[1]]),
                                   !.moshSend = None,
                                   !.bootstrap = IF ~h.started THEN "none"
                                                 ELSE IF boot.ok THEN "Ok" ELSE "Err",
                                   !.relayIn = None, !.clientSend = None,
                                   !.wasTorn = IF d.msg.type = "StartServer"
                                               THEN srvObs.torn ELSE None,
                                   !.torn = IF d.msg.type = "StartServer" THEN None ELSE @,
                                   !.probe = ProbeAfter(@, pkt,
                                       FlushNonces(d.past_nonces) # d.past_nonces)]

\* the public socket's branch for one datagram
ServerPublic ==
    /\ ServerFrame
    /\ server.pc = "public"
    /\ \E pkt \in ServerInbound, clientaddr \in ClientAddrs :
          LET d == decrypt(pkt, "psk", server.past_nonces)
          IN  IF d.err = "Ok"
              THEN ServerDispatch(pkt, clientaddr, d)
              ELSE ServerForward(pkt, clientaddr, d)

\* mosh.socket.recv fails: the subsystem state is cleared
ServerRelayErr ==
    /\ ServerFrame
    /\ server.pc = "relay"
    /\ server.mosh # None
    /\ server' = LoopHead([server EXCEPT !.mosh = None])
    /\ srvObs' = [srvObs EXCEPT !.relayIn = None, !.clientSend = None]

\* a payload of the subsystem goes to the recorded client address
ServerRelay ==
    /\ ServerFrame
    /\ server.pc = "relay"
    /\ server.mosh # None
    /\ \E payload \in MoshPayloads :
          /\ server' = LoopHead(server)
          /\ srvObs' = [srvObs EXCEPT
                           !.relayIn = Some(payload),
                           !.clientSend =
                               IF server.recent_client_addr = None THEN None
                               ELSE Some([to |-> server.recent_client_addr[1],
                                          data |-> payload])]

\* the relay branch finds no subsystem state: unreachable!()
ServerPanic ==
    /\ ServerFrame
    /\ server.pc = "relay"
    /\ server.mosh = None
    /\ server' = [server EXCEPT !.pc = "panicked"]
    /\ UNCHANGED srvObs

ServerNext ==
    \/ ServerPollErr
    \/ ServerPoll
    \/ ServerRecvErr
    \/ ServerPublic
    \/ ServerRelayErr
    \/ ServerRelay
    \/ ServerPanic

(***************************************************************************)
(* client.rs, and what main.rs makes of connect returning                  *)
(***************************************************************************)
\* destination_address, and another address datagrams can come from
Destination == "srv"

PublicAddrs == {Destination, "elsewhere"}

\* the addresses packets reach the client's relay socket from
LocalAddrs == {"l1", "l2"}

\* the nonces of the envelopes that reach the client
ClientNonces == {1, 2, 3}

\* what reaches the client's public socket
ClientInbound ==
    {encrypt(m, "psk", n) :
        m \in {Ping, Pong, StartServer(41), ServerStarted(Text(22, "k1")),
               Failed(DiagMalformed)},
        n \in ClientNonces}
        \cup {Seal(JunkPlain, "psk", n, MAGIC) : n \in ClientNonces}
        \cup Opaque \cup {encrypt(Ping, "other", 1)}

\* the message send_request sends
Request(ping_mode, sessid) == IF ping_mode THEN Ping ELSE StartServer(sessid)

\* a resend rule that gives up one resend early
ResendAllowed_OneShort(resend_counter) == resend_counter > 1

\* if self.resend_counter > 0, after a poll that timed out
ResendAllowed(resend_counter) == resend_counter > 0

\* a pinning rule that follows the latest sender
PinAddress_Latest(reply_address, addr) == Some(addr)

\* if mosh.reply_address.is_none() { mosh.reply_address = Some(addr) }
PinAddress(reply_address, addr) ==
    IF reply_address = None THEN Some(addr) ELSE reply_address

\* a wait that is bounded whether or not there is subsystem state
PollTimeout_Always200(mosh) == 200

\* let timeout = if self.mosh.is_some() { -1 } else { 200 }: -1 waits
\* without bound
PollTimeout(mosh) == IF mosh # None THEN -1 ELSE 200

\* a match that ignores Failed in ping mode
ClientAct_PingIgnoresFailed(msg, ping_mode) ==
    CASE msg.type = "Ping" -> "none"
      [] msg.type = "Pong" -> IF ping_mode THEN "return" ELSE "none"
      [] msg.type = "ServerStarted" -> IF ping_mode THEN "none" ELSE "start"
      [] msg.type = "StartServer" -> "none"
      [] msg.type = "Failed" -> IF ping_mode THEN "none" ELSE "exit1"

\* a match that starts the subsystem in ping mode too
ClientAct_PingStarts(msg, ping_mode) ==
    CASE msg.type = "Ping" -> "none"
      [] msg.type = "Pong" -> IF ping_mode THEN "return" ELSE "none"
      [] msg.type = "ServerStarted" -> "start"
      [] msg.type = "StartServer" -> "none"
      [] msg.type = "Failed" -> "exit1"

\* what the match on an authenticated msg does: nothing, return from
\* connect, start the subsystem, or exit with status 1
ClientAct(msg, ping_mode) ==
    CASE msg.type = "Ping" -> "none"
      [] msg.type = "Pong" -> IF ping_mode THEN "return" ELSE "none"
      [] msg.type = "ServerStarted" -> IF ping_mode THEN "none" ELSE "start"
      [] msg.type = "StartServer" -> "none"
      [] msg.type = "Failed" -> "exit1"

\* the process ends with this status
Exit(c, status) == [c EXCEPT !.pc = "exited", !.status = status]

\* connect returns, main returns Ok(()): the process ends with status 0
Return(c) == Exit(c, 0)

\* the loop is back at its head: polls.truncate(1)
ClientLoopHead(c) ==
    [c EXCEPT !.pc = "poll", !.polls_len = 1,
              !.revents = [pub |-> FALSE, relay |-> FALSE]]

\* where the loop goes after the public socket's branch ran to its end
ClientAfterPublic(c) ==
    IF c.polls_len >= 2 /\ c.revents.relay THEN [c EXCEPT !.pc = "relay"]
    ELSE ClientLoopHead(c)

\* what the client did in the current wake (nothing yet)
ClientNoEvents ==
    [ev |-> "none", from |-> Destination, pkt |-> <<>>, err |-> "none",
     msg |-> Ping, request |-> None, moshSend |-> None, relayIn |-> None,
     pubSend |-> None]

ClientFrame == UNCHANGED <<codec, server, srvObs>>

ClientInit ==
    /\ \E ping_mode \in BOOLEAN, sessid \in SessIds :
          client = [pc |-> "start",
                    status |-> 0,
                    mosh |-> None,
                    past_nonces |-> {},
                    resend_counter |-> ResendBudget,
                    sessid |-> sessid,
                    ping_mode |-> ping_mode,
                    polls_len |-> 1,
                    revents |-> [pub |-> FALSE, relay |-> FALSE],
                    spawns |-> 0,
                    sent |-> 0,
                    quiet |-> TRUE,
                    waited |-> {}]
    /\ cliObs = ClientNoEvents

\* send_request: the request is encrypted and sent, or the send fails and
\* the process exits with status 3
SendRequest(c, sendOk, nonce) ==
    IF sendOk /\ Len(encrypt(Request(c.ping_mode, c.sessid), "psk", nonce)) > 0
    THEN [c EXCEPT !.sent = @ + 1]
    ELSE Exit(c, 3)

\* connect sends the first request and enters the loop
ClientStart ==
    /\ ClientFrame
    /\ client.pc = "start"
    /\ \E sendOk \in BOOLEAN, nonce \in Nonces :
          /\ client' = LET c == SendRequest(client, sendOk, nonce)
                       IN  IF sendOk THEN ClientLoopHead(c) ELSE c
          /\ cliObs' = [ClientNoEvents EXCEPT
                           !.ev = IF sendOk THEN "sent" ELSE "sendfail",
                           !.request = IF sendOk
                                       THEN Some(Request(client.ping_mode, client.sessid))
                                       ELSE None]

\* poll fails: connect returns
ClientPollErr ==
    /\ ClientFrame
    /\ client.pc = "poll"
    /\ client' = Return([client EXCEPT !.quiet = FALSE])
    /\ cliObs' = [ClientNoEvents EXCEPT !.ev = "pollerr"]

\* poll times out (200 ms, only while there is no subsystem state): a
\* resend, or exit with status 2 once the budget is spent
ClientTimeout ==
    /\ ClientFrame
    /\ client.pc = "poll"
    /\ PollTimeout(client.mosh) >= 0
    /\ IF ResendAllowed(client.resend_counter)
       THEN \E sendOk \in BOOLEAN, nonce \in Nonces :
               /\ client' = SendRequest([client EXCEPT !.resend_counter = @ - 1],
                                        sendOk, nonce)
               /\ cliObs' = [ClientNoEvents EXCEPT
                                !.ev = IF sendOk THEN "sent" ELSE "sendfail",
                                !.request =
                                    IF sendOk
                                    THEN Some(Request(client.ping_mode, client.sessid))
                                    ELSE None]
       ELSE /\ client' = IF client.mosh = None THEN Exit(client, 2) ELSE client
            /\ cliObs' = [ClientNoEvents EXCEPT !.ev = "giveup"]

\* the head of the loop: the poll set is rebuilt and poll reports readiness
ClientPoll ==
    /\ ClientFrame
    /\ client.pc = "poll"
    /\ LET n == IF client.mosh # None THEN 2 ELSE 1
       IN  \E pub \in BOOLEAN, relay \in BOOLEAN :
              /\ pub \/ relay
              /\ relay => n = 2
              /\ client' = [client EXCEPT
                               !.polls_len = n,
                               !.revents = [pub |-> pub, relay |-> relay],
                               !.pc = IF pub THEN "public" ELSE "relay",
                               !.quiet = FALSE]
    /\ cliObs' = ClientNoEvents

\* client_socket.recv_from fails: continue
ClientRecvErr ==
    /\ ClientFrame
    /\ client.pc = "public"
    /\ client' = ClientLoopHead(client)
    /\ cliObs' = [cliObs EXCEPT !.ev = "recverr"]

\* a datagram from another address than the destination: continue
ClientStranger ==
    /\ ClientFrame
    /\ client.pc = "public"
    /\ \E pkt \in ClientInbound, fromaddr \in PublicAddrs \ {Destination} :
          /\ client' = ClientLoopHead(client)
          /\ pkt \in ClientInbound
          /\ cliObs' = [ClientNoEvents EXCEPT !.ev = "stranger", !.from = fromaddr]

\* decrypt fails and the datagram is dropped, a learned peer address or not
ClientForward_Drops(pkt, d) ==
    /\ client' = ClientLoopHead([client EXCEPT !.past_nonces = d.past_nonces])
    /\ cliObs' = [ClientNoEvents EXCEPT !.ev = "datagram", !.pkt = pkt, !.err = d.err]

\* decrypt fails: the datagram goes to the learned peer address, if any; a
\* failed send makes connect return
ClientForward(pkt, d) ==
    \E sendOk \in IF client.mosh # None /\ client.mosh[1].reply_address # None
                  THEN BOOLEAN ELSE {TRUE} :
        LET c == [client EXCEPT !.past_nonces = d.past_nonces]
            sends == client.mosh # None /\ client.mosh[1].reply_address # None
        IN  /\ client' = IF sendOk THEN ClientLoopHead(c) ELSE Return(c)
            /\ cliObs' = [ClientNoEvents EXCEPT
                             !.ev = "datagram", !.pkt = pkt, !.err = d.err,
                             !.moshSend =
                                 IF sends
                                 THEN Some([to |-> client.mosh[1].reply_address[1],
                                            pkt |-> pkt, ok |-> sendOk])
                                 ELSE None]

\* decrypt succeeds: the match on the message
ClientDispatch(pkt, d) ==
    LET act == ClientAct(d.msg, client.ping_mode)
        c == [client EXCEPT !.past_nonces = d.past_nonces]
    IN  /\ act = "start" => client.spawns < MaxSpawns
        /\ \E startOk \in IF act = "start" THEN BOOLEAN ELSE {TRUE} :
              /\ client' =
                    CASE act = "none" -> ClientAfterPublic(c)
                      [] act = "return" -> Return(c)
                      [] act = "exit1" -> Exit(c, 1)
                      [] act = "start" ->
                            IF startOk
                            THEN ClientAfterPublic(
                                     [c EXCEPT
                                        !.mosh = Some([socket |-> c.spawns + 1,
                                                       reply_address |-> None]),
                                        !.spawns = @ + 1])
                            ELSE Exit(c, 3)
              /\ cliObs' = [ClientNoEvents EXCEPT
                               !.ev = IF act = "start"
                                      THEN (IF startOk THEN "started" ELSE "startfail")
                                      ELSE "datagram",
                               !.pkt = pkt, !.err = d.err, !.msg = d.msg]

\* the public socket's branch for one datagram from the destination
ClientPublic ==
    /\ ClientFrame
    /\ client.pc = "public"
    /\ \E pkt \in ClientInbound :
          LET d == decrypt(pkt, "psk", client.past_nonces)
          IN  IF d.err = "Ok" THEN ClientDispatch(pkt, d) ELSE ClientForward(pkt, d)

\* mosh.socket.recv_from fails: exit with status 1
ClientRelayErr ==
    /\ ClientFrame
    /\ client.pc = "relay"
    /\ client.mosh # None
    /\ client' = Exit(client, 1)
    /\ cliObs' = [cliObs EXCEPT !.ev = "relayerr", !.relayIn = None, !.pubSend = None]

\* a packet on the relay socket: the first sender is pinned, a packet from
\* the pinned address goes to the destination, any other is discarded
ClientRelay ==
    /\ ClientFrame
    /\ client.pc = "relay"
    /\ client.mosh # None
    /\ \E pkt \in MoshPayloads, addr \in LocalAddrs :
          LET pinned == PinAddress(client.mosh[1].reply_address, addr)
          IN  /\ client' = ClientLoopHead(
                               [client EXCEPT !.mosh[1].reply_address = pinned])
              /\ cliObs' = [cliObs EXCEPT
                               !.relayIn = Some([pkt |-> pkt, addr |-> addr]),
                               !.pubSend = IF Some(addr) # pinned THEN None
                                           ELSE Some([to |-> Destination,
                                                      data |-> pkt])]

\* the status a watcher thread exits with for what child.wait() returned
WaitResults == {"success", "unsuccessful", "waiterr"}

WatcherStatus(result) ==
    CASE result = "success" -> 0
      [] result = "unsuccessful" -> 4
      [] result = "waiterr" -> 3

\* child.wait() returns in a watcher thread: a mosh-client has completed (or
\* the wait failed); the thread has still to call std::process::exit.
\* waited holds the results the threads that are this far have got.
ClientChildDone ==
    /\ ClientFrame
    /\ client.pc \in {"poll", "public", "relay"}
    /\ Cardinality(client.waited) < client.spawns
    /\ \E result \in WaitResults \ client.waited :
          client' = [client EXCEPT !.waited = @ \cup {result}]
    /\ UNCHANGED cliObs

\* a watcher thread whose wait has returned calls std::process::exit: the
\* process exits with 0, 4 or 3, unless the main thread ended it first
ClientWatcher ==
    /\ ClientFrame
    /\ client.pc \in {"poll", "public", "relay"}
    /\ \E result \in client.waited :
          /\ client' = Exit(client, WatcherStatus(result))
          /\ cliObs' = [ClientNoEvents EXCEPT !.ev = "childexit"]

ClientNext ==
    \/ ClientStart
    \/ ClientPollErr
    \/ ClientTimeout
    \/ ClientPoll
    \/ ClientRecvErr
    \/ ClientStranger
    \/ ClientPublic
    \/ ClientRelayErr
    \/ ClientRelay
    \/ ClientChildDone
    \/ ClientWatcher

Init == CodecInit /\ ServerInit /\ ClientInit

SpecCodec == Init /\ [][CodecNext]_vars

SpecServer == Init /\ [][ServerNext]_vars

SpecClient == Init /\ [][ClientNext]_vars

(***************************************************************************)
(* Properties of the server                                                *)
(***************************************************************************)
\* this step is the public branch handling one datagram
DatagramStep == server.pc = "public" /\ srvObs'.ev = "datagram"

\* this step is the public branch acting on an authenticated StartServer
StartServerStep ==
    /\ DatagramStep
    /\ srvObs'.err = "Ok"
    /\ srvObs'.msg.type = "StartServer"

\* C1: an authenticated StartServer whose bootstrap fails leaves the
\* subsystem state cleared and a Failed reply sent to the sender, and the
\* server loop keeps running (it has neither returned nor panicked).
ServerSurvivesBootstrapFailure ==
    srvObs.bootstrap = "Err" =>
        /\ server.mosh = None
        /\ srvObs.reply # None
        /\ srvObs.reply[1].to = srvObs.from
        /\ srvObs.reply[1].msg.type = "Failed"
        /\ server.pc \in {"poll", "public", "relay"}

\* C2: an authenticated StartServer{s} that finds a subsystem stored under s
\* is answered with ServerStarted carrying the stored key, sent to the
\* sender; start_mosh_server is not called and the stored subsystem state
\* (socket, key, session id) stays as it was.
IdempotentBootstrap ==
    [][(/\ StartServerStep
        /\ server.mosh # None
        /\ server.mosh[1].sessid = srvObs'.msg.sessid)
       => /\ srvObs'.reply = Some([to |-> srvObs'.from,
                                   msg |-> ServerStarted(server.mosh[1].key)])
          /\ srvObs'.bootstrap = "none"
          /\ server'.spawns = server.spawns
          /\ server'.mosh = server.mosh]_vars

\* a retransmitted StartServer from another address than the one recorded
\* was answered with the stored key
IdempotentBootstrapWitness ==
    /\ srvObs.ev = "datagram"
    /\ srvObs.err = "Ok"
    /\ srvObs.msg.type = "StartServer"
    /\ srvObs.bootstrap = "none"
    /\ srvObs.from = "c2"
    /\ server.mosh # None
    /\ server.mosh[1].sessid = srvObs.msg.sessid
    /\ srvObs.reply = Some([to |-> "c2", msg |-> ServerStarted(server.mosh[1].key)])

\* C5: the replay cache of either role never holds more nonces than the
\* threshold, whatever datagrams arrive.
ReplayCacheBounded ==
    /\ Cardinality(server.past_nonces) <= ReplayLimit
    /\ Cardinality(client.past_nonces) <= ReplayLimit

\* the envelope of the datagram the public branch handles in this step
StepEnvelope == DeserializeDatagram(srvObs'.pkt, SizeLimit)

\* C6 (as amended): a datagram whose nonce is in the server's cache is never
\* delivered as a Message; a delivered datagram has its nonce inserted (the
\* cache then holds it unless the insertion pushed the cache over the
\* threshold and flushed it); so an authenticated datagram that arrives
\* again is refused as a replay as long as the cache has not been flushed,
\* and the server acts on it a second time only after a flush.
ReplayRejectedUnlessFlushed ==
    [][DatagramStep =>
        /\ (StepEnvelope.ok /\ StepEnvelope.nonce \in server.past_nonces)
              => srvObs'.err # "Ok"
        /\ srvObs'.err = "Ok"
              => \/ StepEnvelope.nonce \in server'.past_nonces
                 \/ /\ server'.past_nonces = {}
                    /\ Cardinality(server.past_nonces) >= ReplayLimit
        /\ (srvObs'.pkt = Probe /\ srvObs.probe = "cached")
              => /\ srvObs'.err = "Replay attack"
                 /\ srvObs'.reply = None
                 /\ server'.recent_client_addr = server.recent_client_addr
                 /\ server'.spawns = server.spawns
        /\ (srvObs'.pkt = Probe /\ srvObs'.err = "Ok")
              => srvObs.probe \in {"fresh", "flushed"}]_vars

\* the datagram the server had acted on arrived again and was refused
ReplayRejectedWitness ==
    /\ srvObs.ev = "datagram"
    /\ srvObs.pkt = Probe
    /\ srvObs.err = "Replay attack"
    /\ srvObs.probe = "cached"
    /\ srvObs.reply = None

\* C6 (as claimed): the server never acts twice on the same authenticated
\* datagram.
NeverActsTwice ==
    [][(DatagramStep /\ srvObs'.pkt = Probe /\ srvObs'.err = "Ok")
          => srvObs.probe = "fresh"]_vars

\* C9: a failed forward of an unauthenticatable datagram to the relay socket
\* clears the subsystem state, and the next authenticated StartServer, the
\* torn-down session's id included, calls start_mosh_server: its reply is
\* ServerStarted with the key of a newly bound relay socket, or Failed.
TeardownThenFreshBootstrap ==
    [][/\ (DatagramStep /\ srvObs'.moshSend # None /\ ~srvObs'.moshSend[1].ok)
             => /\ server'.mosh = None
                /\ srvObs'.err # "Ok"
                /\ srvObs'.moshSend[1].pkt = srvObs'.pkt
       /\ (StartServerStep /\ srvObs.torn # None)
             => /\ srvObs'.bootstrap \in {"Ok", "Err"}
                /\ server'.spawns = server.spawns + 1
                /\ srvObs'.bootstrap = "Ok"
                      => /\ server'.mosh # None
                         /\ server'.mosh[1].socket # srvObs.torn[1].socket
                         /\ server'.mosh[1].sessid = srvObs'.msg.sessid
                         /\ srvObs'.reply =
                               Some([to |-> srvObs'.from,
                                     msg |-> ServerStarted(server'.mosh[1].key)])
                /\ srvObs'.bootstrap = "Err"
                      => /\ server'.mosh = None
                         /\ srvObs'.reply # None
                         /\ srvObs'.reply[1].msg.type = "Failed"]_vars

\* after a teardown, a StartServer with the torn-down session's id was
\* bootstrapped afresh
TeardownThenFreshBootstrapWitness ==
    /\ srvObs.wasTorn # None
    /\ srvObs.msg.type = "StartServer"
    /\ srvObs.msg.sessid = srvObs.wasTorn[1].sessid
    /\ srvObs.bootstrap = "Ok"
    /\ server.mosh # None
    /\ server.mosh[1].socket # srvObs.wasTorn[1].socket

\* C10: a payload read from the relay socket goes, unchanged, to the
\* recorded client address and nowhere else (nowhere when none is
\* recorded); the recorded address changes only when an authenticated
\* StartServer is handled, and then to that datagram's sender.
RelayToRecordedClient ==
    [][/\ (server.pc = "relay" /\ srvObs'.relayIn # None)
             => srvObs'.clientSend =
                   IF server.recent_client_addr = None THEN None
                   ELSE Some([to |-> server.recent_client_addr[1],
                              data |-> srvObs'.relayIn[1]])
       /\ server'.recent_client_addr # server.recent_client_addr
             => StartServerStep
       /\ StartServerStep
             => server'.recent_client_addr = Some(srvObs'.from)]_vars

\* a payload was relayed to the recorded client in a wake that also handled
\* a Ping from another address
RelayToRecordedClientWitness ==
    /\ srvObs.ev = "datagram"
    /\ srvObs.err = "Ok"
    /\ srvObs.msg.type = "Ping"
    /\ srvObs.relayIn # None
    /\ srvObs.clientSend # None
    /\ server.recent_client_addr # None
    /\ srvObs.from # server.recent_client_addr[1]
    /\ srvObs.clientSend[1] = [to |-> server.recent_client_addr[1],
                               data |-> srvObs.relayIn[1]]

(***************************************************************************)
(* Properties of the client                                                *)
(***************************************************************************)
\* C3: the client never sends more than 1 + 50 requests; it exits with
\* status 2 only after exactly that many; and when every readiness wait so
\* far timed out and no send failed, the client that has exited has sent
\* 51 requests and exited with status 2, in ping mode and in normal mode.
ResendBound ==
    /\ client.sent <= ResendBudget + 1
    /\ (client.pc = "exited" /\ client.status = 2)
          => /\ client.sent = ResendBudget + 1
             /\ client.resend_counter = 0
             /\ client.mosh = None
    /\ (client.pc = "exited" /\ client.quiet /\ cliObs.ev # "sendfail")
          => /\ client.status = 2
             /\ client.sent = ResendBudget + 1

\* a client that never received anything has given up after 51 requests,
\* in normal mode
ResendBoundWitness ==
    /\ client.pc = "exited"
    /\ client.quiet
    /\ client.status = 2
    /\ client.sent = ResendBudget + 1
    /\ ~client.ping_mode

\* C4: when the forward of an unauthenticated datagram to the learned peer
\* address fails, the process ends with exit status 1.
ForwardFailureExitsWithOne ==
    (cliObs.moshSend # None /\ ~cliObs.moshSend[1].ok)
        => client.pc = "exited" /\ client.status = 1

\* this step is the relay branch handling one packet
RelayStep == client.pc = "relay" /\ cliObs'.relayIn # None /\ client'.pc # "exited"

\* C8: the learned peer address is set by the first packet read from the
\* relay socket and stays what it is for as long as that subsystem state
\* lives; a packet from another address is discarded, a packet from the
\* pinned address (the first one included) goes unchanged to the
\* destination address.
AddressPinning ==
    [][/\ (/\ client.mosh # None
           /\ client'.mosh # None
           /\ client'.mosh[1].socket = client.mosh[1].socket
           /\ client.mosh[1].reply_address # None)
             => client'.mosh[1].reply_address = client.mosh[1].reply_address
       /\ (client.mosh # None /\ client'.mosh # None
           /\ client'.mosh[1].reply_address # client.mosh[1].reply_address
           /\ client'.mosh[1].socket = client.mosh[1].socket)
             => /\ RelayStep
                /\ client'.mosh[1].reply_address = Some(cliObs'.relayIn[1].addr)
       /\ RelayStep
             => /\ client'.mosh[1].reply_address # None
                /\ cliObs'.pubSend =
                      IF /\ client.mosh[1].reply_address # None
                         /\ client.mosh[1].reply_address # Some(cliObs'.relayIn[1].addr)
                      THEN None
                      ELSE Some([to |-> Destination, data |-> cliObs'.relayIn[1].pkt])]_vars

\* a packet from another address than the pinned one was discarded
AddressPinningWitness ==
    /\ client.mosh # None
    /\ client.mosh[1].reply_address = Some("l1")
    /\ cliObs.relayIn # None
    /\ cliObs.relayIn[1].addr = "l2"
    /\ cliObs.pubSend = None
    /\ client.pc = "poll"

\* C11: once a spawned mosh-client has completed (its watcher's wait has
\* returned), the process ends with the status the watcher gives it: 0 for
\* success, 4 for an unsuccessful exit, 3 for a failed wait, whatever the
\* main loop does meanwhile.
WatcherDecidesStatus ==
    (client.pc = "exited" /\ client.waited # {})
        => client.status \in {WatcherStatus(result) : result \in client.waited}

\* this step is the client's public branch acting on an authenticated message
\* from the destination
ClientMessageStep ==
    /\ client.pc = "public"
    /\ cliObs'.ev \in {"datagram", "started", "startfail"}
    /\ cliObs'.err = "Ok"

\* C12: an authenticated Failed from the destination ends the process with
\* status 1, with or without subsystem state, in ping mode and in normal
\* mode; no request is sent in that step, and a process that has ended takes
\* no further step.
FailedExitsWithOne ==
    [][/\ (ClientMessageStep /\ cliObs'.msg.type = "Failed")
             => /\ client'.pc = "exited"
                /\ client'.status = 1
                /\ client'.sent = client.sent
                /\ cliObs'.request = None
       /\ client.pc = "exited" => client' = client]_vars

\* a Failed ended an Established client
FailedExitsWithOneWitness ==
    /\ client.pc = "exited"
    /\ client.status = 1
    /\ cliObs.ev = "datagram"
    /\ cliObs.err = "Ok"
    /\ cliObs.msg.type = "Failed"
    /\ client.mosh # None
    /\ client.mosh[1].reply_address # None

\* C13: in ping mode no step creates subsystem state or spawns a
\* subprocess, whatever arrives (ServerStarted included), and an
\* authenticated Pong from the destination ends the process with status 0.
PingModeNeverEstablished ==
    [][client.ping_mode =>
          /\ client'.ping_mode
          /\ client'.mosh = None
          /\ client'.spawns = 0
          /\ cliObs'.ev \notin {"started", "startfail", "childexit"}
          /\ (ClientMessageStep /\ cliObs'.msg.type = "Pong")
                => client'.pc = "exited" /\ client'.status = 0]_vars

\* in ping mode a ServerStarted was ignored
PingIgnoresServerStarted ==
    /\ client.ping_mode
    /\ cliObs.ev = "datagram"
    /\ cliObs.err = "Ok"
    /\ cliObs.msg.type = "ServerStarted"
    /\ client.mosh = None
    /\ client.pc = "poll"

\* in ping mode a Pong ended the process with status 0 after another
\* message had been received
PingModeWitness ==
    /\ client.ping_mode
    /\ client.pc = "exited"
    /\ client.status = 0
    /\ cliObs.ev = "datagram"
    /\ cliObs.err = "Ok"
    /\ cliObs.msg.type = "Pong"
    /\ Cardinality(client.past_nonces) >= 2
    /\ client.spawns = 0

\* C14: while there is subsystem state the wait has no timeout: every wake
\* reports a readable socket, no request is sent, the resend budget is left
\* alone, the subsystem state stays, and the process does not exit with
\* status 2.
NoResendOnceEstablished ==
    [][client.mosh # None =>
          /\ client'.sent = client.sent
          /\ client'.resend_counter = client.resend_counter
          /\ cliObs'.request = None
          /\ client'.mosh # None
          /\ ~(client'.pc = "exited" /\ client'.status = 2)
          /\ (client.pc = "poll" /\ client'.pc \in {"public", "relay"})
                => (client'.revents.pub \/ client'.revents.relay)
          /\ (client.pc = "poll" /\ client'.pc = "poll")
                => client'.waited # client.waited]_vars

\* an Established client with resends left went through a wake of its relay
\* socket and is waiting again
NoResendOnceEstablishedWitness ==
    /\ client.mosh # None
    /\ client.mosh[1].reply_address # None
    /\ client.resend_counter > 0
    /\ client.sent = ResendBudget + 1 - client.resend_counter
    /\ client.pc = "poll"
    /\ cliObs.pubSend # None

(***************************************************************************)
(* More properties of the codec                                            *)
(***************************************************************************)
\* decrypt was called on a datagram with the four fields of an envelope
\* whose magic is not MAGIC
WrongMagicCase ==
    /\ codec.out # None
    /\ Len(codec.pkt) = 4
    /\ codec.pkt[1].w = 4
    /\ codec.pkt[1].v # MAGIC

\* C16: an envelope (a datagram that decodes within the 1024-byte bound)
\* whose magic is not MAGIC is refused with the magic error, whether or not
\* its nonce is fresh and its ciphertext opens under the key, and the cache
\* is left as it was; a longer datagram with a wrong magic is refused one
\* step earlier, by the decoder, and leaves the cache alone as well.
MagicCheckedFirst ==
    WrongMagicCase =>
        /\ codec.past_nonces = codec.out[1].before
        /\ codec.out[1].err =
              IF SizeOf(codec.pkt) <= SizeLimit THEN "Invalid magic" ELSE "Decode"

\* an envelope that the key opens and whose nonce is not in the cache was
\* refused for its magic
MagicCheckedFirstWitness ==
    /\ WrongMagicCase
    /\ codec.pkt[4].v.k = codec.out[1].key
    /\ codec.pkt[2].v \notin codec.out[1].before
    /\ codec.out[1].before # {}
    /\ codec.out[1].err = "Invalid magic"
    /\ codec.past_nonces = codec.out[1].before

(***************************************************************************)
(* More properties of the server                                           *)
(***************************************************************************)
\* C15: an authenticated Ping is answered with one Pong, sent to its sender;
\* an authenticated Pong, ServerStarted or Failed gets no reply; none of the
\* four touches the subsystem state or the recorded client address, calls
\* start_mosh_server or sends anything to the relay socket.
PingPongFrame ==
    [][(/\ DatagramStep
        /\ srvObs'.err = "Ok"
        /\ srvObs'.msg.type \in {"Ping", "Pong", "ServerStarted", "Failed"})
       => /\ srvObs'.reply =
                IF srvObs'.msg.type = "Ping"
                THEN Some([to |-> srvObs'.from, msg |-> Pong])
                ELSE None
          /\ server'.mosh = server.mosh
          /\ server'.recent_client_addr = server.recent_client_addr
          /\ server'.spawns = server.spawns
          /\ srvObs'.bootstrap = "none"
          /\ srvObs'.moshSend = None]_vars

\* with a subsystem active for the client at c1, a Ping from c2 was answered
\* with a Pong to c2
PingPongFrameWitness ==
    /\ srvObs.ev = "datagram"
    /\ srvObs.err = "Ok"
    /\ srvObs.msg.type = "Ping"
    /\ srvObs.from = "c2"
    /\ srvObs.reply = Some([to |-> "c2", msg |-> Pong])
    /\ srvObs.relayIn = None
    /\ server.mosh # None
    /\ server.recent_client_addr = Some("c1")

\* C19: the relay branch of either loop runs only with subsystem state
\* present, so neither unreachable!() is executed.
UnreachableNeverExecuted ==
    /\ server.pc = "relay" => server.mosh # None
    /\ server.pc # "panicked"
    /\ client.pc = "relay" => client.mosh # None

\* C20: whenever the server holds subsystem state a client address is
\* recorded, and every payload read from the relay socket was sent on.
MoshImpliesClientAddr ==
    /\ server.mosh # None => server.recent_client_addr # None
    /\ srvObs.relayIn # None => srvObs.clientSend # None

\* a payload read from the relay socket went to the recorded client
MoshImpliesClientAddrWitness ==
    /\ server.mosh # None
    /\ server.recent_client_addr # None
    /\ srvObs.relayIn # None
    /\ srvObs.clientSend = Some([to |-> server.recent_client_addr[1],
                                 data |-> srvObs.relayIn[1]])
    /\ srvObs.ev = "none"

(***************************************************************************)
(* More properties of the client                                           *)
(***************************************************************************)
\* this step is the client's public branch handling a datagram from the
\* destination that decrypt refused
ClientRefusedStep ==
    /\ client.pc = "public"
    /\ cliObs'.ev = "datagram"
    /\ cliObs'.err # "Ok"

\* C17 (as amended): with subsystem state present, a datagram from the
\* destination that decrypt refuses is sent unchanged to the learned peer
\* address if there is one (the loop goes on if the send succeeds, connect
\* returns if it fails), and is dropped otherwise: the loop goes on. In
\* both cases nothing else changes, except that an envelope that
\* authenticated but holds no Message has left its nonce in the replay
\* cache. A datagram from any other address is never sent on and changes
\* nothing.
ForwardOrDropRefused ==
    [][/\ (ClientRefusedStep /\ client.mosh # None)
             => /\ client'.past_nonces # client.past_nonces
                      => /\ cliObs'.err = "Inner decode"
                         /\ client.past_nonces \subseteq client'.past_nonces
                         /\ Cardinality(client'.past_nonces)
                               = Cardinality(client.past_nonces) + 1
                /\ IF client.mosh[1].reply_address # None
                   THEN /\ cliObs'.moshSend # None
                        /\ cliObs'.moshSend[1].to = client.mosh[1].reply_address[1]
                        /\ cliObs'.moshSend[1].pkt = cliObs'.pkt
                        /\ client' =
                              IF cliObs'.moshSend[1].ok
                              THEN ClientLoopHead(
                                      [client EXCEPT
                                          !.past_nonces = client'.past_nonces])
                              ELSE Return(
                                      [client EXCEPT
                                          !.past_nonces = client'.past_nonces])
                   ELSE /\ cliObs'.moshSend = None
                        /\ client' = ClientLoopHead(
                              [client EXCEPT !.past_nonces = client'.past_nonces])
       /\ (client.pc = "public" /\ cliObs'.ev = "stranger")
             => /\ cliObs'.moshSend = None
                /\ cliObs'.from # Destination
                /\ client' = ClientLoopHead(client)]_vars

\* an Established client with no peer address learned dropped an envelope
\* that authenticated but held no Message, and kept its nonce
ForwardOrDropRefusedWitness ==
    /\ client.mosh # None
    /\ client.mosh[1].reply_address = None
    /\ cliObs.ev = "datagram"
    /\ cliObs.err = "Inner decode"
    /\ cliObs.moshSend = None
    /\ client.pc = "poll"
    /\ Cardinality(client.past_nonces) >= 2

\* an Established client sent a refused datagram on to the learned address
RefusedForwardedWitness ==
    /\ client.mosh # None
    /\ client.mosh[1].reply_address # None
    /\ cliObs.ev = "datagram"
    /\ cliObs.err # "Ok"
    /\ cliObs.moshSend =
          Some([to |-> client.mosh[1].reply_address[1], pkt |-> cliObs.pkt,
                ok |-> TRUE])
    /\ client.pc = "poll"

\* C17 (as claimed): the refused datagram is sent on unchanged to the
\* learned peer address, or dropped with no state change at all when none
\* is learned; a datagram from another address changes nothing.
ForwardOrDropNoStateChange ==
    [][/\ (ClientRefusedStep /\ client.mosh # None)
             => IF client.mosh[1].reply_address # None
                THEN /\ cliObs'.moshSend # None
                     /\ cliObs'.moshSend[1].to = client.mosh[1].reply_address[1]
                     /\ cliObs'.moshSend[1].pkt = cliObs'.pkt
                ELSE /\ cliObs'.moshSend = None
                     /\ client' = ClientLoopHead(client)
       /\ (client.pc = "public" /\ cliObs'.ev = "stranger")
             => /\ cliObs'.moshSend = None
                /\ client' = ClientLoopHead(client)]_vars

\* C18: the client starts its subsystem at most once: no second
\* subprocess is spawned, and once there is subsystem state no message
\* replaces the relay socket or forgets the learned peer address.
BootstrapsAtMostOnce ==
    /\ client.spawns <= 1
    /\ client.mosh # None => client.mosh[1].socket = 1

\* decrypt was called on a datagram with the four fields of an envelope
EnvelopeCase ==
    /\ codec.out # None
    /\ Len(codec.pkt) = 4

\* C21: a decrypt call that fails with a decode, magic, authentication or
\* replay error leaves the cache as it was; a call that returns a Message,
\* or that fails because the authenticated plaintext is no Message, was
\* made on an envelope within the size bound, with the right magic, sealed
\* under the caller's key, whose nonce was not in the cache, and leaves the
\* cache with exactly that nonce added; so such an envelope presented
\* again is refused as a replay.
NonceInsertedOnlyIfAuthenticated ==
    codec.out # None =>
        /\ codec.out[1].err \in {"Decode", "Invalid magic", "Decryption failed",
                                 "Replay attack"}
              => codec.past_nonces = codec.out[1].before
        /\ codec.out[1].err \in {"Ok", "Inner decode"}
              => /\ Len(codec.pkt) = 4
                 /\ SizeOf(codec.pkt) <= SizeLimit
                 /\ codec.pkt[1].v = MAGIC
                 /\ codec.pkt[4].v.k = codec.out[1].key
                 /\ codec.pkt[4].v.n = codec.pkt[2].v
                 /\ codec.pkt[2].v \notin codec.out[1].before
                 /\ codec.past_nonces = codec.out[1].before \cup {codec.pkt[2].v}
        /\ codec.past_nonces # codec.out[1].before
              => codec.out[1].err \in {"Ok", "Inner decode"}
        /\ (/\ EnvelopeCase
            /\ SizeOf(codec.pkt) <= SizeLimit
            /\ codec.pkt[1].v = MAGIC
            /\ codec.pkt[4].v.k = codec.out[1].key
            /\ codec.pkt[4].v.n = codec.pkt[2].v
            /\ codec.pkt[2].v \in codec.out[1].before)
              => codec.out[1].err = "Replay attack"

\* an authenticated envelope whose plaintext is no Message was presented
\* again and refused as a replay: its nonce is the only one in the cache
NonceInsertedWitness ==
    /\ EnvelopeCase
    /\ codec.pkt[4].v.pt = JunkPlain
    /\ codec.out[1].err = "Replay attack"
    /\ codec.out[1].before = {codec.pkt[2].v}
    /\ codec.past_nonces = codec.out[1].before

\* the first call on that envelope: the inner decode failed and the nonce
\* went into the cache
InnerDecodeInsertsWitness ==
    /\ EnvelopeCase
    /\ codec.out[1].err = "Inner decode"
    /\ codec.out[1].before = {}
    /\ codec.past_nonces = {codec.pkt[2].v}

====
